---- MODULE Spec2Model ----
(***************************************************************************)
(* Model of src/src/similarities.py: the validate_input decorator (the    *)
(* validation gate), the six gated similarity functions and the ungated   *)
(* hamming_distance.                                                       *)
(*                                                                         *)
(* Python values are modelled as follows.                                  *)
(*   - a set element is <<type, n>>, type one of "int", "float", "str",    *)
(*     "bytes"; distinct tuples are distinct (unequal) Python objects;     *)
(*   - an argument is a record [type |-> "set" | "int", val |-> elements]; *)
(*   - an int result is a TLA+ integer; a float result is an IEEE-754      *)
(*     binary64 value, kept exactly as mantissa and exponent (see below).  *)
(***************************************************************************)
EXTENDS Integers, Sequences, FiniteSets, TLC

(***************************************************************************)
(* Arbitrary-size naturals: little-endian sequences of digits in base      *)
(* 2^15, without leading zero digits (zero is << >>).  They carry the      *)
(* 53-bit mantissas of binary64 and the 106-bit intermediate products.    *)
(* The operations are functions, so that their arguments are values.       *)
(***************************************************************************)
Base == 2^15

BigNat == Seq(Nat)

Max2(a, b) == IF a >= b THEN a ELSE b

Dig(a, i) == IF i <= Len(a) THEN a[i] ELSE 0

SmallBitLen[d \in Nat] == IF d = 0 THEN 0 ELSE 1 + SmallBitLen[d \div 2]

DigitBits == SmallBitLen[Base] - 1

\* a + b
NAdd[a \in BigNat, b \in BigNat] ==
    LET n == Max2(Len(a), Len(b))
        s[i \in 0..n] ==
            IF i = 0 THEN 0 ELSE Dig(a, i) + Dig(b, i) + (s[i - 1] \div Base)
    IN  [i \in 1..n |-> s[i] % Base]
        \o (IF s[n] \div Base = 0 THEN << >> ELSE <<s[n] \div Base>>)

\* a * d for one digit d
NMulDigit[a \in BigNat, d \in Nat] ==
    IF d = 0 \/ a = << >> THEN << >>
    ELSE LET n == Len(a)
             s[i \in 0..n] ==
                 IF i = 0 THEN 0 ELSE a[i] * d + (s[i - 1] \div Base)
         IN  [i \in 1..n |-> s[i] % Base]
             \o (IF s[n] \div Base = 0 THEN << >> ELSE <<s[n] \div Base>>)

\* a * Base^k
NShiftDigits[a \in BigNat, k \in Nat] ==
    IF a = << >> THEN << >> ELSE [i \in 1..k |-> 0] \o a

\* a * b
NMul[a \in BigNat, b \in BigNat] ==
    IF b = << >> THEN << >>
    ELSE NAdd[NMulDigit[a, b[1]], NShiftDigits[NMul[a, Tail(b)], 1]]

\* a < b
NLess[a \in BigNat, b \in BigNat] ==
    IF Len(a) # Len(b) THEN Len(a) < Len(b)
    ELSE \E i \in 1..Len(a) :
            /\ a[i] < b[i]
            /\ \A j \in (i + 1)..Len(a) : a[j] = b[j]

NLeq[a \in BigNat, b \in BigNat] == a = b \/ NLess[a, b]

\* 2^k
NPow2(k) == NShiftDigits[<<2^(k % DigitBits)>>, k \div DigitBits]

\* a * 2^k
NShl[a \in BigNat, k \in Nat] ==
    NShiftDigits[NMulDigit[a, 2^(k % DigitBits)], k \div DigitBits]

\* the number of bits of a
NBitLen[a \in BigNat] ==
    IF a = << >> THEN 0
    ELSE (Len(a) - 1) * DigitBits + SmallBitLen[a[Len(a)]]

\* floor(a / 2^k)
NShr[a \in BigNat, k \in Nat] ==
    LET left == NBitLen[a] - k
        dd   == k \div DigitBits
        r    == k % DigitBits
    IN  IF left <= 0 THEN << >>
        ELSE [i \in 1..((left + DigitBits - 1) \div DigitBits) |->
                  (Dig(a, i + dd) \div 2^r)
                  + (Dig(a, i + dd + 1) % 2^r) * 2^(DigitBits - r)] \o << >>

NIsOdd(a) == a # << >> /\ a[1] % 2 = 1

\* floor(p / d), built from the top bit down: bit i of the quotient is set
\* when the product with d still fits under p.  qd is q * d, kept along.
NDivBits[p \in BigNat, d \in BigNat, q \in BigNat, qd \in BigNat, i \in Int] ==
    IF i < 0 THEN q
    ELSE LET td == NAdd[qd, NShl[d, i]]
         IN  IF NLeq[td, p]
             THEN NDivBits[p, d, NAdd[q, NPow2(i)], td, i - 1]
             ELSE NDivBits[p, d, q, qd, i - 1]

\* floor(sqrt(n)), likewise.  rr is r * r, kept along.
NSqrtBits[n \in BigNat, r \in BigNat, rr \in BigNat, i \in Int] ==
    IF i < 0 THEN r
    ELSE LET tt == NAdd[NAdd[rr, NShl[r, i + 1]], NPow2(2 * i)]
         IN  IF NLeq[tt, n]
             THEN NSqrtBits[n, NAdd[r, NPow2(i)], tt, i - 1]
             ELSE NSqrtBits[n, r, rr, i - 1]

(***************************************************************************)
(* IEEE-754 binary64 ("float" in Python), positive values and zero only:   *)
(* [man |-> m, exp |-> e] is m * 2^e with 2^52 <= m < 2^53; zero is FZero. *)
(* Every operation rounds to nearest, ties to even, as the hardware does.  *)
(***************************************************************************)
FZero == [man |-> << >>, exp |-> 0]

\* (n + f) * 2^e rounded to 53 bits, where 0 <= f < 1 and sticky says f > 0
\* (n has at least 55 bits whenever f > 0).
FRound[n \in BigNat, sticky \in BOOLEAN, e \in Int] ==
    LET bl == NBitLen[n]
    IN  IF bl <= 53
        THEN [man |-> NShl[n, 53 - bl], exp |-> e - (53 - bl)]
        ELSE LET sh   == bl - 53
                 q2   == NShr[n, sh - 1]
                 st   == sticky \/ NShl[q2, sh - 1] # n
                 q    == NShr[q2, 1]
                 up   == NIsOdd(q2) /\ (st \/ NIsOdd(q))
                 m    == IF up THEN NAdd[q, <<1>>] ELSE q
             IN  IF NBitLen[m] > 53
                 THEN [man |-> NShr[m, 1], exp |-> e + sh + 1]
                 ELSE [man |-> m, exp |-> e + sh]

\* float(n) for an int 0 <= n < 2^15 (exact).
FFromInt(n) == IF n = 0 THEN FZero ELSE FRound[<<n>>, FALSE, 0]

\* x * y
FMul(x, y) ==
    IF x = FZero \/ y = FZero THEN FZero
    ELSE FRound[NMul[x.man, y.man], FALSE, x.exp + y.exp]

\* q = floor(p / d), rounded; inexact when q * d # p
FRoundQuotient[p \in BigNat, d \in BigNat, q \in BigNat, e \in Int] ==
    FRound[q, NMul[q, d] # p, e]

\* x / y for y # 0
FDiv(x, y) ==
    IF x = FZero THEN FZero
    ELSE FRoundQuotient[NShl[x.man, 55], y.man,
                        NDivBits[NShl[x.man, 55], y.man, << >>, << >>, 56],
                        x.exp - y.exp - 55]

\* r = floor(sqrt(s)), rounded; inexact when r * r # s
FRoundRoot[s \in BigNat, r \in BigNat, e \in Int] ==
    FRound[r, NMul[r, r] # s, e]

\* math.sqrt(n) for an int 0 <= n < 2^15: float(n), then the correctly
\* rounded square root.
FSqrtInt(n) ==
    IF n = 0 THEN FZero
    ELSE LET k == (108 - SmallBitLen[n]) \div 2
         IN  FRoundRoot[NShl[<<n>>, 2 * k],
                        NSqrtBits[NShl[<<n>>, 2 * k], << >>, << >>, 54],
                        0 - k]

FOne == FFromInt(1)

\* x <= y for floats
FLeq(x, y) ==
    \/ x = FZero
    \/ /\ y # FZero
       /\ \/ x.exp < y.exp
          \/ x.exp = y.exp /\ NLeq[x.man, y.man]

(***************************************************************************)
(* Bounds of the model.                                                    *)
(***************************************************************************)
\* number of distinct int elements
MaxInt == 2

\* largest cardinality of set1 | set2, and of the total range
MaxLen == 3

(***************************************************************************)
(* Python values.                                                          *)
(***************************************************************************)
\* Set elements: ints, one non-integral float (so that it equals no int),
\* one str and one bytes object.
Elems ==
    ({"int"} \X (1..MaxInt)) \cup {<<"float", 1>>, <<"str", 1>>, <<"bytes", 1>>}

PySet(S) == [type |-> "set", val |-> S]

\* the int 1, the non-set argument of the tests
PyInt == [type |-> "int", val |-> {}]

PyNone == [type |-> "NoneType", val |-> {}]

SmallSets == {S \in SUBSET Elems : Cardinality(S) <= MaxLen}

SetObjs == {PySet(S) : S \in SmallSets}

\* The positional arguments of a call: two, or three with the total range.
\* Each may be a set or the int 1; the two sets together hold at most MaxLen
\* elements.
ArgLists ==
    LET Objs == SetObjs \cup {PyInt}
        Pairs == {p \in Objs \X Objs :
                     Cardinality(p[1].val \cup p[2].val) <= MaxLen}
    IN  Pairs \cup {p \o <<u>> : p \in Pairs, u \in Objs}

\* bool(x) of an argument: None and the empty set are falsy.
Truthy(x) == x.type = "int" \/ (x.type = "set" /\ x.val # {})

\* Results of a call.
Return(t, v) == [kind |-> "return", type |-> t, val |-> v]

Raise(t, m) == [kind |-> "raise", type |-> t, val |-> m]

NoOutcome == [kind |-> "none", type |-> "none", val |-> ""]

RECURSIVE SumOver(_, _)
SumOver(f, S) ==
    IF S = {} THEN 0
    ELSE LET x == CHOOSE y \in S : TRUE
         IN  f[x] + SumOver(f, S \ {x})

Min2(a, b) == IF a <= b THEN a ELSE b

\* set1 ^ set2
SymDiff(a, b) == (a \ b) \cup (b \ a)

(***************************************************************************)
(* Float results that the formulas can produce, computed once.             *)
(***************************************************************************)
MaxCard == 2 * MaxLen

\* a / b for ints 0 <= a and 0 < b
TrueDivMemo ==
    [a \in 0..MaxCard, b \in 1..MaxCard |-> FDiv(FFromInt(a), FFromInt(b))]
        @@ << >>

\* math.sqrt(n)
SqrtMemo == [n \in 0..MaxLen |-> FSqrtInt(n)] @@ << >>

\* math.sqrt(a) * math.sqrt(b)
MagnitudeMemo ==
    [a \in 0..MaxLen, b \in 0..MaxLen |-> FMul(SqrtMemo[a], SqrtMemo[b])]
        @@ << >>

\* d / (math.sqrt(a) * math.sqrt(b)) for a, b > 0
QuotientMemo ==
    [d \in 0..MaxLen, a \in 1..MaxLen, b \in 1..MaxLen |->
        FDiv(FFromInt(d), MagnitudeMemo[a, b])] @@ << >>

\* a / b for ints
IntTrueDiv(a, b) ==
    IF b = 0 THEN Raise("ZeroDivisionError", "division by zero")
    ELSE Return("float", TrueDivMemo[a, b])

(***************************************************************************)
(* The similarity functions (the undecorated formulas).                    *)
(***************************************************************************)
\* A slip in overlap_formula: the size of set1 instead of the smaller size.
overlap_formula_Set1Size(set1, set2, total_range) ==
    IntTrueDiv(Cardinality(set1 \cap set2), Cardinality(set1))

overlap_formula(set1, set2, total_range) ==
    IntTrueDiv(Cardinality(set1 \cap set2),
               Min2(Cardinality(set1), Cardinality(set2)))

\* A slip in jaccard_formula: the two sizes added instead of the union's size.
jaccard_formula_SumOfSizes(set1, set2, total_range) ==
    IntTrueDiv(Cardinality(set1 \cap set2),
               Cardinality(set1) + Cardinality(set2))

jaccard_formula(set1, set2, total_range) ==
    IntTrueDiv(Cardinality(set1 \cap set2), Cardinality(set1 \cup set2))

dice_formula(set1, set2, total_range) ==
    IntTrueDiv(2 * Cardinality(set1 \cap set2),
               Cardinality(set1) + Cardinality(set2))

cosine_formula(set1, set2, total_range) ==
    LET intersection == set1 \cup set2
        vector1 == [i \in intersection |-> IF i \in set1 THEN 1 ELSE 0]
        vector2 == [i \in intersection |-> IF i \in set2 THEN 1 ELSE 0]
        dot_product ==
            SumOver([i \in intersection |-> vector1[i] * vector2[i]],
                    intersection)
        sq_a == SumOver([i \in intersection |-> vector1[i] * vector1[i]],
                        intersection)
        sq_b == SumOver([i \in intersection |-> vector2[i] * vector2[i]],
                        intersection)
        \* norm_a * norm_b, with norm_a = math.sqrt(sq_a) and norm_b likewise
        magnitude == MagnitudeMemo[sq_a, sq_b]
    IN  IF magnitude = FZero
        THEN Raise("ZeroDivisionError", "float division by zero")
        ELSE Return("float", QuotientMemo[dot_product, sq_a, sq_b])

\* The locals of simple_matching_coefficient: all_, p, q, r and s.
simple_matching_terms(set1, set2, total_range) ==
    LET all_ == IF ~Truthy(total_range) THEN set1 \cup set2
                ELSE total_range.val
    IN  [all_ |-> all_,
         p |-> Cardinality(set1 \cap set2),
         q |-> Cardinality(set1 \ set2),
         r |-> Cardinality(set2 \ set1),
         s |-> Cardinality(SymDiff(set1, all_) \cap SymDiff(set2, all_))]

\* A slip in simple_matching_formula: s counts (set1 ^ all_) | (set2 ^ all_).
simple_matching_formula_UnionOfAbsent(set1, set2, total_range) ==
    LET t == simple_matching_terms(set1, set2, total_range)
        s == Cardinality(SymDiff(set1, t.all_) \cup SymDiff(set2, t.all_))
    IN  IntTrueDiv(t.p + s, t.p + t.q + t.r + s)

simple_matching_formula(set1, set2, total_range) ==
    LET t == simple_matching_terms(set1, set2, total_range)
    IN  IntTrueDiv(t.p + t.s, t.p + t.q + t.r + t.s)

hamming_distance(set1, set2) == Cardinality(SymDiff(set1, set2))

\* A slip in hamming_formula: the total range is never used.
hamming_formula_UnionOnly(set1, set2, total_range) ==
    IntTrueDiv(hamming_distance(set1, set2), Cardinality(set1 \cup set2))

hamming_formula(set1, set2, total_range) ==
    LET all_ == IF ~Truthy(total_range) THEN set1 \cup set2
                ELSE total_range.val
    IN  IntTrueDiv(hamming_distance(set1, set2), Cardinality(all_))

Functions ==
    {"overlap_coefficient", "jaccard_similarity", "dice_sorensen_coefficient",
     "cosine_similarity", "simple_matching_coefficient",
     "hamming_coefficient"}

\* func(*args) for args of two or three sets; total_range defaults to None.
Apply(func, args) ==
    LET set1 == args[1].val
        set2 == args[2].val
        total_range == IF Len(args) = 3 THEN args[3] ELSE PyNone
    IN  CASE func = "overlap_coefficient" ->
               overlap_formula(set1, set2, total_range)
          [] func = "jaccard_similarity" ->
               jaccard_formula(set1, set2, total_range)
          [] func = "dice_sorensen_coefficient" ->
               dice_formula(set1, set2, total_range)
          [] func = "cosine_similarity" ->
               cosine_formula(set1, set2, total_range)
          [] func = "simple_matching_coefficient" ->
               simple_matching_formula(set1, set2, total_range)
          [] func = "hamming_coefficient" ->
               hamming_formula(set1, set2, total_range)

(***************************************************************************)
(* validate_input: the decorator factory and the wrapper it builds.        *)
(***************************************************************************)
\* Values given as the option, written as Python literals.
Options == {"'one'", "None", "'both'", "''", "0", "False"}

\* bool(option)
OptionTruthy(option) == option \notin {"None", "''", "0", "False"}

\* `if option and option != "one"`: the option is refused.
OptionRejected(option) == OptionTruthy(option) /\ option # "'one'"

\* validate_input(option), up to the return of the decorator
validate_input(option) ==
    IF OptionRejected(option)
    THEN Raise("ValueError",
               "The provided option is incorrect; it can only be 'one'")
    ELSE Return("function", "decorator_validate_input")

\* The option each module-level function is decorated with.
Policy(func) ==
    IF func \in {"overlap_coefficient", "cosine_similarity",
                 "simple_matching_coefficient"}
    THEN "'one'" ELSE "None"

\* args[:2]
FirstTwo(args) == SubSeq(args, 1, Min2(2, Len(args)))

\* A slip in AllSets: only args[:2] are looked at.
AllSets_FirstTwoOnly(args) ==
    \A i \in 1..Len(FirstTwo(args)) : args[i].type = "set"

\* all(isinstance(s, set) for s in args)
AllSets(args) == \A i \in 1..Len(args) : args[i].type = "set"

\* A slip in AnyEmpty: only args[0] is looked at.
AnyEmpty_FirstOnly(args) == ~Truthy(args[1])

\* A slip in AnyEmpty: all() instead of any().
AnyEmpty_BothOnly(args) ==
    \A i \in 1..Len(FirstTwo(args)) : ~Truthy(args[i])

\* any(not s for s in args[:2])
AnyEmpty(args) == \E i \in 1..Len(FirstTwo(args)) : ~Truthy(args[i])

\* all(not s for s in args[:2])
AllEmpty(args) == \A i \in 1..Len(FirstTwo(args)) : ~Truthy(args[i])

\* A slip in ElementClasses: type(c) for every element.
ElementClasses_ExactType(s) == {c[1] : c \in s}

\* {numbers.Number if isinstance(c, numbers.Number) else type(c) for c in s}
ElementClasses(s) ==
    {IF c[1] \in {"int", "float"} THEN "numbers.Number" ELSE c[1] : c \in s}

\* the set the homogeneity check looks at: args[0] | args[1]
CheckedElements(args) == args[1].val \cup args[2].val

\* A slip in DropsTotalRange: the total range is compared with set1 alone.
DropsTotalRange_Set1Only(args) ==
    Len(args) = 3 /\ ~(args[1].val \subseteq args[3].val)

\* len(args) == 3 and not total_range >= (set1 | set2)
DropsTotalRange(args) ==
    Len(args) = 3 /\ ~((args[1].val \cup args[2].val) \subseteq args[3].val)

WarnOneEmpty == "At least one of the sets must be non-empty."

WarnBothEmpty == "Both sets are empty!"

WarnTotalRange ==
    "The total range provided is not a superset of the other two sets"

ErrNotSets == "All arguments must be sets!"

ErrElementTypes == "Elements in the sets must be of the same type."

Result(o, w, f, r) == [outcome |-> o, warns |-> w, forwarded |-> f, ran |-> r]

\* A slip in wrapper_validate_input: the homogeneity check is made before the
\* emptiness checks.
wrapper_validate_input_HomogeneityFirst(option, func, args) ==
    IF ~AllSets(args)
    THEN Result(Raise("TypeError", ErrNotSets), << >>, << >>, FALSE)
    ELSE IF Cardinality(ElementClasses(CheckedElements(args))) > 1
    THEN Result(Raise("TypeError", ErrElementTypes), << >>, << >>, FALSE)
    ELSE IF option = "'one'" /\ AnyEmpty(args)
    THEN Result(Return("NoneType", "None"), <<WarnOneEmpty>>, << >>, FALSE)
    ELSE IF AllEmpty(args)
    THEN Result(Return("int", 0), <<WarnBothEmpty>>, << >>, FALSE)
    ELSE LET kept == IF DropsTotalRange(args) THEN SubSeq(args, 1, 2)
                     ELSE args
         IN  Result(Apply(func, kept),
                    IF DropsTotalRange(args) THEN <<WarnTotalRange>>
                    ELSE << >>,
                    kept, TRUE)

\* wrapper_validate_input(*args) of the wrapper built with `option` around
\* `func`: its outcome, the warnings it emits in order, and the arguments it
\* forwards to func (ran tells whether func was called).
wrapper_validate_input(option, func, args) ==
    IF ~AllSets(args)
    THEN Result(Raise("TypeError", ErrNotSets), << >>, << >>, FALSE)
    ELSE IF option = "'one'" /\ AnyEmpty(args)
    THEN Result(Return("NoneType", "None"), <<WarnOneEmpty>>, << >>, FALSE)
    ELSE IF AllEmpty(args)
    THEN Result(Return("int", 0), <<WarnBothEmpty>>, << >>, FALSE)
    ELSE IF Cardinality(ElementClasses(CheckedElements(args))) # 1
    THEN Result(Raise("TypeError", ErrElementTypes), << >>, << >>, FALSE)
    ELSE LET kept == IF DropsTotalRange(args) THEN SubSeq(args, 1, 2)
                     ELSE args
         IN  Result(Apply(func, kept),
                    IF DropsTotalRange(args) THEN <<WarnTotalRange>>
                    ELSE << >>,
                    kept, TRUE)

(***************************************************************************)
(* The state machine: one call of one operation of the module.  Calls are  *)
(* independent (the module keeps no state), so a behaviour is the idle     *)
(* module followed by one operation and its observable result.             *)
(***************************************************************************)
VARIABLES
    pc,         \* "idle" before the operation, "done" after it
    func,       \* the operation that ran
    option,     \* the option of the gate that ran (or given to validate_input)
    args,       \* the positional arguments of the call
    result      \* what the operation did, see Result

vars == <<pc, func, option, args, result>>

\* what the call returned or raised
outcome == result.outcome

\* the warnings emitted, in order
warns == result.warns

\* the arguments the gate passed to the wrapped function
forwarded == result.forwarded

\* whether the wrapped function was called
ran == result.ran

Init ==
    /\ pc = "idle"
    /\ func = "none"
    /\ option = "None"
    /\ args = << >>
    /\ result = Result(NoOutcome, << >>, << >>, FALSE)

\* validate_input(o) evaluated (configuration time)
ValidateInput ==
    /\ pc = "idle"
    /\ \E o \in Options :
        /\ option' = o
        /\ result' = Result(validate_input(o), << >>, << >>, FALSE)
    /\ pc' = "done"
    /\ func' = "validate_input"
    /\ UNCHANGED args

\* f(*a) for a gated module-level function f
Call(f) ==
    /\ pc = "idle"
    /\ \E a \in ArgLists :
        /\ args' = a
        /\ result' = wrapper_validate_input(Policy(f), f, a)
    /\ pc' = "done"
    /\ func' = f
    /\ option' = Policy(f)

CallOverlap == Call("overlap_coefficient")

CallJaccard == Call("jaccard_similarity")

CallDice == Call("dice_sorensen_coefficient")

CallCosine == Call("cosine_similarity")

CallSimpleMatching == Call("simple_matching_coefficient")

CallHammingCoefficient == Call("hamming_coefficient")

\* hamming_distance(set1, set2), which has no gate
CallHammingDistance ==
    /\ pc = "idle"
    /\ \E a \in SetObjs, b \in SetObjs :
        /\ args' = <<a, b>>
        /\ result' = Result(Return("int", hamming_distance(a.val, b.val)),
                            << >>, <<a, b>>, TRUE)
    /\ pc' = "done"
    /\ func' = "hamming_distance"
    /\ UNCHANGED option

Next ==
    \/ ValidateInput
    \/ CallOverlap
    \/ CallJaccard
    \/ CallDice
    \/ CallCosine
    \/ CallSimpleMatching
    \/ CallHammingCoefficient
    \/ CallHammingDistance

Spec == Init /\ [][Next]_vars

(***************************************************************************)
(* Vocabulary of the properties, stated on the finished call.              *)
(***************************************************************************)
\* a call of one of the six gated functions has finished
GatedCall == pc = "done" /\ func \in Functions

PolicyOneFunctions ==
    {"overlap_coefficient", "cosine_similarity", "simple_matching_coefficient"}

PolicyNoneFunctions ==
    {"jaccard_similarity", "dice_sorensen_coefficient", "hamming_coefficient"}

ArgsAreSets == \A i \in 1..Len(args) : args[i].type = "set"

SetA == args[1].val

SetB == args[2].val

HasUniverse == Len(args) = 3

Universe == args[3].val

BothEmpty == SetA = {} /\ SetB = {}

ExactlyOneEmpty == (SetA = {}) # (SetB = {})

\* the class of an element: every numeric type is one class
ClassOf(c) == IF c[1] = "int" \/ c[1] = "float" THEN "numeric" ELSE c[1]

Homogeneous(S) == \A x \in S, y \in S : ClassOf(x) = ClassOf(y)

\* the call gets past the type check and the emptiness checks of its policy
ReachesHomogeneityCheck ==
    /\ GatedCall
    /\ ArgsAreSets
    /\ ~BothEmpty
    /\ func \in PolicyOneFunctions => (SetA # {} /\ SetB # {})

ReturnedFloat == outcome.kind = "return" /\ outcome.type = "float"

ReturnedNone == outcome.kind = "return" /\ outcome.type = "NoneType"

\* C1: a gated call with a non-set positional argument (either set or the
\* universe) raises TypeError "All arguments must be sets!", emits no warning
\* and does not run the formula, whatever the other arguments are.
C1_NonSetRaisesBeforeAnyCheck ==
    (GatedCall /\ ~ArgsAreSets) =>
        /\ outcome = Raise("TypeError", "All arguments must be sets!")
        /\ warns = << >>
        /\ ~ran

\* a policy-"one" call of two empty sets and a universe that is the int 1
C1_Witness ==
    /\ GatedCall
    /\ func = "overlap_coefficient"
    /\ HasUniverse
    /\ args[1] = PySet({}) /\ args[2] = PySet({}) /\ args[3] = PyInt
    /\ outcome = Raise("TypeError", "All arguments must be sets!")

\* C2: a gated call of two empty sets, under any policy, returns 0 with the
\* one warning "Both sets are empty!" and does not run the formula.
C2_BothEmptyReturnsZero ==
    (GatedCall /\ ArgsAreSets /\ BothEmpty) =>
        /\ outcome = Return("int", 0)
        /\ warns = <<"Both sets are empty!">>
        /\ ~ran

\* C3: a policy-"one" call with exactly one empty set does not raise: it
\* returns None with the one warning "At least one of the sets must be
\* non-empty." and the formula does not run; a policy-none function has no
\* such check: it never gives that warning, and forwards the two sets to the
\* formula (when the non-empty one passes the homogeneity check).
C3_OneEmptySentinelPerPolicy ==
    (GatedCall /\ ArgsAreSets /\ ExactlyOneEmpty) =>
        /\ func \in PolicyOneFunctions =>
            /\ outcome = Return("NoneType", "None")
            /\ warns = <<"At least one of the sets must be non-empty.">>
            /\ ~ran
        /\ func \in PolicyNoneFunctions =>
            /\ \A i \in 1..Len(warns) :
                  warns[i] # "At least one of the sets must be non-empty."
            /\ ~ReturnedNone
            /\ Homogeneous(SetA \cup SetB) =>
                  /\ ran
                  /\ SubSeq(forwarded, 1, 2) = SubSeq(args, 1, 2)

\* jaccard_similarity(set(), {1}) ran its formula
C3_Witness ==
    /\ GatedCall
    /\ func = "jaccard_similarity"
    /\ ArgsAreSets /\ SetA = {} /\ SetB = {<<"int", 1>>}
    /\ ran /\ ReturnedFloat

\* C4: a policy-"one" function (overlap_coefficient, cosine_similarity,
\* simple_matching_coefficient) called with exactly one empty set raises
\* ValueError "At least one of the sets must be non-empty.".
C4_OneEmptyRaisesValueError ==
    (GatedCall /\ ArgsAreSets /\ ExactlyOneEmpty
     /\ func \in PolicyOneFunctions) =>
        outcome =
            Raise("ValueError", "At least one of the sets must be non-empty.")

\* C5: a gated call that reaches the homogeneity check raises TypeError
\* "Elements in the sets must be of the same type." exactly when the elements
\* of setA | setB (the universe is not looked at) fall in more than one
\* class, all numeric types being one class; otherwise the formula runs.
C5_HomogeneityOverUnionOnly ==
    ReachesHomogeneityCheck =>
        /\ (outcome =
                Raise("TypeError",
                      "Elements in the sets must be of the same type."))
           <=> ~Homogeneous(SetA \cup SetB)
        /\ ran <=> Homogeneous(SetA \cup SetB)

\* ints with a float are accepted although the universe holds a str as well
C5_Witness ==
    /\ GatedCall
    /\ ArgsAreSets /\ HasUniverse
    /\ SetA = {<<"int", 1>>, <<"int", 2>>} /\ SetB = {<<"float", 1>>}
    /\ Universe = {<<"int", 1>>, <<"str", 1>>}
    /\ ran /\ ReturnedFloat

\* the call gets past every check before the universe validation
PassesEarlierChecks ==
    ReachesHomogeneityCheck /\ Homogeneous(SetA \cup SetB)

\* C6: with a universe that is not a superset of setA | setB (earlier checks
\* passed) the gate gives the one warning "The total range provided is not a
\* superset of the other two sets", forwards (setA, setB) only, and the call
\* returns what the two-argument call returns; with a superset there is no
\* warning and the three arguments are forwarded.
C6_UniverseDroppedOrForwarded ==
    (PassesEarlierChecks /\ HasUniverse) =>
        IF (SetA \cup SetB) \subseteq Universe
        THEN warns = << >> /\ ran /\ forwarded = args
        ELSE /\ warns =
                  <<"The total range provided is not a superset of the other two sets">>
             /\ ran
             /\ forwarded = <<args[1], args[2]>>
             /\ outcome =
                  wrapper_validate_input(Policy(func), func,
                                         <<args[1], args[2]>>).outcome

\* hamming_coefficient({1}, {2}, {1}): the universe misses 2 and is dropped
C6_Witness ==
    /\ GatedCall
    /\ func = "hamming_coefficient"
    /\ ArgsAreSets /\ HasUniverse
    /\ SetA = {<<"int", 1>>} /\ SetB = {<<"int", 2>>}
    /\ Universe = {<<"int", 1>>}
    /\ Len(forwarded) = 2 /\ Len(warns) = 1 /\ ReturnedFloat

\* C7: validate_input accepts the option "one" and None and nothing else:
\* every other value raises ValueError when validate_input is evaluated.
C7_OnlyOneAndNoneAccepted ==
    (pc = "done" /\ func = "validate_input") =>
        (outcome.kind = "raise" /\ outcome.type = "ValueError")
            <=> option \notin {"'one'", "None"}

\* C8: no gated call ends in a division by zero: whenever the gate forwards
\* a call, the formula's denominator is not zero.
C8_NoDivisionByZero ==
    GatedCall =>
        /\ outcome.type # "ZeroDivisionError"
        /\ ran => ReturnedFloat

\* dice_sorensen_coefficient({1}, set()) divides by 1
C8_Witness ==
    /\ GatedCall
    /\ func = "dice_sorensen_coefficient"
    /\ ArgsAreSets /\ SetA = {<<"int", 1>>} /\ SetB = {}
    /\ ran /\ ReturnedFloat /\ outcome.val = FZero

\* C9: every numeric result of a gated function lies in [0, 1] and
\* hamming_distance returns a non-negative integer.
C9_ResultsInUnitInterval ==
    pc = "done" =>
        /\ (func \in Functions /\ ReturnedFloat) => FLeq(outcome.val, FOne)
        /\ (func \in Functions /\ outcome.kind = "return"
            /\ outcome.type = "int") => outcome.val \in {0, 1}
        /\ func = "hamming_distance" =>
              (outcome.kind = "return" /\ outcome.type = "int"
               /\ outcome.val >= 0)

\* the arguments with the two sets exchanged
SwappedArgs == <<args[2], args[1]>> \o SubSeq(args, 3, Len(args))

\* C10: every measure is symmetric in its two sets: the call with the two
\* sets exchanged (same universe) has the same outcome (value or error) and
\* the same warnings, and hamming_distance(A, B) = hamming_distance(B, A).
C10_SymmetricInTheTwoSets ==
    /\ GatedCall =>
          LET other == wrapper_validate_input(Policy(func), func, SwappedArgs)
          IN  other.outcome = outcome /\ other.warns = warns
    /\ (pc = "done" /\ func = "hamming_distance") =>
          outcome = Return("int", hamming_distance(SetB, SetA))

\* overlap_coefficient({1}, {1, 2}): sets of different sizes, formula run
C10_Witness ==
    /\ GatedCall
    /\ func = "overlap_coefficient"
    /\ ArgsAreSets
    /\ SetA = {<<"int", 1>>} /\ SetB = {<<"int", 1>>, <<"int", 2>>}
    /\ ran /\ outcome = Return("float", FOne)

\* a finished jaccard_similarity call whose arguments are sets and whose
\* two sets hold elements of one kind
JaccardOfHomogeneousSets ==
    /\ GatedCall
    /\ func = "jaccard_similarity"
    /\ ArgsAreSets
    /\ Homogeneous(SetA \cup SetB)

\* C11 as claimed: for all sets A, B of one kind of element,
\* jaccard_similarity(A, A) == 1, and jaccard_similarity(A, B) == 0 when A and
\* B are disjoint and both non-empty.
C11_JaccardIdentities ==
    JaccardOfHomogeneousSets =>
        /\ SetA = SetB => outcome = Return("float", FOne)
        /\ (SetA \cap SetB = {} /\ SetA # {} /\ SetB # {}) =>
              outcome = Return("float", FZero)

\* C11 as amended: jaccard_similarity(A, A) == 1 for every NON-EMPTY A (the
\* call of two empty sets is answered by the gate with 0), and
\* jaccard_similarity(A, B) == 0 when A and B are disjoint and both non-empty.
C11_JaccardIdentitiesNonEmpty ==
    JaccardOfHomogeneousSets =>
        /\ (SetA = SetB /\ SetA # {}) => outcome = Return("float", FOne)
        /\ (SetA \cap SetB = {} /\ SetA # {} /\ SetB # {}) =>
              outcome = Return("float", FZero)

\* jaccard_similarity({1, 2}, {1, 2}) ran its formula and returned 1.0
C11_Witness ==
    /\ JaccardOfHomogeneousSets
    /\ SetA = {<<"int", 1>>, <<"int", 2>>} /\ SetB = SetA
    /\ ran /\ outcome = Return("float", FOne)

\* a finished call of f whose arguments are sets, whose two sets are
\* non-empty and hold elements of one kind
NonEmptyHomogeneousCall(f) ==
    /\ GatedCall
    /\ func = f
    /\ ArgsAreSets
    /\ SetA # {} /\ SetB # {}
    /\ Homogeneous(SetA \cup SetB)

\* total_range as the formula received it (None when not forwarded)
ForwardedTotalRange == IF Len(forwarded) = 3 THEN forwarded[3] ELSE PyNone

\* p, q, r, s and all_ of the simple_matching_coefficient call that ran
SmcTerms ==
    simple_matching_terms(forwarded[1].val, forwarded[2].val,
                          ForwardedTotalRange)

\* simple_matching_coefficient(A, B, A | B) for the A, B of this call
SmcWithExplicitUnion ==
    wrapper_validate_input(Policy("simple_matching_coefficient"),
                           "simple_matching_coefficient",
                           <<args[1], args[2], PySet(SetA \cup SetB)>>)

\* C12: for non-empty homogeneous A, B, simple_matching_coefficient(A, B)
\* with the universe omitted computes over A | B, so s = 0 and the result is
\* |A & B| / |A | B|; the call with the universe A | B given explicitly emits
\* no warning, forwards the universe and returns the same value.
C12_SmcDefaultUniverseRoundTrip ==
    NonEmptyHomogeneousCall("simple_matching_coefficient") =>
        /\ ~HasUniverse =>
              /\ ran
              /\ SmcTerms.all_ = SetA \cup SetB
              /\ SmcTerms.s = 0
              /\ outcome =
                    Return("float",
                           TrueDivMemo[Cardinality(SetA \cap SetB),
                                       Cardinality(SetA \cup SetB)])
              /\ SmcWithExplicitUnion.outcome = outcome
              /\ SmcWithExplicitUnion.warns = << >>
        /\ (HasUniverse /\ Universe = SetA \cup SetB) =>
              /\ ran
              /\ warns = << >>
              /\ forwarded = args
              /\ SmcTerms.s = 0
              /\ outcome =
                    wrapper_validate_input(Policy(func), func,
                                           <<args[1], args[2]>>).outcome

\* simple_matching_coefficient({1, 2}, {2, 0.5}, {1, 2, 0.5}) returned 1/3
C12_Witness ==
    /\ NonEmptyHomogeneousCall("simple_matching_coefficient")
    /\ HasUniverse
    /\ SetA = {<<"int", 1>>, <<"int", 2>>}
    /\ SetB = {<<"int", 2>>, <<"float", 1>>}
    /\ Universe = SetA \cup SetB
    /\ warns = << >>
    /\ outcome = Return("float", TrueDivMemo[1, 3])

\* C13: the emptiness checks come before the homogeneity check, which comes
\* before the universe validation, and the first check that triggers decides
\* the outcome alone.  For a call whose setA | setB mixes element kinds:
\* (i) with exactly one empty set, a policy-"one" function returns None with
\* the one warning "At least one of the sets must be non-empty." and raises
\* nothing, while a policy-none function raises the element TypeError;
\* (ii) when the homogeneity check is reached and the universe is not a
\* superset of setA | setB, the call raises the element TypeError and the
\* superset warning is not emitted.  In no case does the formula run.
C13_FirstTriggeredCheckDecides ==
    (GatedCall /\ ArgsAreSets /\ ~Homogeneous(SetA \cup SetB)) =>
        /\ ~ran
        /\ (ExactlyOneEmpty /\ func \in PolicyOneFunctions) =>
              /\ outcome = Return("NoneType", "None")
              /\ warns = <<"At least one of the sets must be non-empty.">>
        /\ (ExactlyOneEmpty /\ func \in PolicyNoneFunctions) =>
              /\ outcome =
                    Raise("TypeError",
                          "Elements in the sets must be of the same type.")
              /\ warns = << >>
        /\ (ReachesHomogeneityCheck /\ HasUniverse
            /\ ~((SetA \cup SetB) \subseteq Universe)) =>
              /\ outcome =
                    Raise("TypeError",
                          "Elements in the sets must be of the same type.")
              /\ warns = << >>

\* overlap_coefficient(set(), {1, "a"}) returned None with its warning
C13_Witness ==
    /\ GatedCall
    /\ func = "overlap_coefficient"
    /\ ArgsAreSets /\ ~HasUniverse
    /\ SetA = {} /\ SetB = {<<"int", 1>>, <<"str", 1>>}
    /\ ReturnedNone
    /\ warns = <<"At least one of the sets must be non-empty.">>

\* x + y for floats (binary64, round to nearest, ties to even): the sum of
\* two results as a caller computes it.
FAdd(x, y) ==
    IF x = FZero THEN y
    ELSE IF y = FZero THEN x
    ELSE LET lo == IF x.exp <= y.exp THEN x ELSE y
             hi == IF x.exp <= y.exp THEN y ELSE x
         IN  FRound[NAdd[NShl[hi.man, hi.exp - lo.exp], lo.man], FALSE, lo.exp]

\* the floats a / b with 0 <= a <= b <= MaxLen
UnitFractions == {TrueDivMemo[a, b] : a \in 0..MaxLen, b \in 1..MaxLen}

\* x + y for the floats above, computed once
AddMemo == [x \in UnitFractions, y \in UnitFractions |-> FAdd(x, y)] @@ << >>

\* the universe the formulas work with: the one given when it is a superset
\* of A | B, else A | B
EffectiveUniverse ==
    IF HasUniverse /\ (SetA \cup SetB) \subseteq Universe
    THEN Universe ELSE SetA \cup SetB

\* hamming_coefficient(*args) for the arguments of this call
HammingOfSameArgs ==
    wrapper_validate_input(Policy("hamming_coefficient"),
                           "hamming_coefficient", args).outcome

\* C14: for non-empty homogeneous A, B and a universe U that is omitted or
\* dropped (then U = A | B) or a superset of A | B, the terms of
\* simple_matching_coefficient satisfy s = |U - (A | B)| and
\* p + q + r + s = |U|, its result is (|A & B| + s) / |U|, the result of
\* hamming_coefficient on the same arguments is |A ^ B| / |U|, and the float
\* sum of the two results is exactly 1.0.
C14_SmcPlusHammingIsOne ==
    NonEmptyHomogeneousCall("simple_matching_coefficient") =>
        /\ ran
        /\ SmcTerms.all_ = EffectiveUniverse
        /\ SmcTerms.s = Cardinality(EffectiveUniverse \ (SetA \cup SetB))
        /\ SmcTerms.p + SmcTerms.q + SmcTerms.r + SmcTerms.s
              = Cardinality(EffectiveUniverse)
        /\ outcome =
              Return("float",
                     TrueDivMemo[Cardinality(SetA \cap SetB) + SmcTerms.s,
                                 Cardinality(EffectiveUniverse)])
        /\ HammingOfSameArgs =
              Return("float",
                     TrueDivMemo[Cardinality(SymDiff(SetA, SetB)),
                                 Cardinality(EffectiveUniverse)])
        /\ AddMemo[outcome.val, HammingOfSameArgs.val] = FOne

\* simple_matching_coefficient({1}, {2}, {1, 2, 0.5}): s = 1, the result is
\* 1/3 and the Hamming coefficient is 2/3
C14_Witness ==
    /\ NonEmptyHomogeneousCall("simple_matching_coefficient")
    /\ HasUniverse
    /\ SetA = {<<"int", 1>>} /\ SetB = {<<"int", 2>>}
    /\ Universe = {<<"int", 1>>, <<"int", 2>>, <<"float", 1>>}
    /\ SmcTerms.s = 1
    /\ outcome = Return("float", TrueDivMemo[1, 3])
    /\ HammingOfSameArgs = Return("float", TrueDivMemo[2, 3])

====
